---- MODULE Spec2Model ----
(***************************************************************************)
(* Flow-field path finder on a quadtree map (hit9/quadtree-pathfinding).   *)
(*                                                                         *)
(* The path finder of src/internal/pathfinder_flowfield.cpp and its facade *)
(* of src/qdpf.cpp are modelled operation by operation.  The quadtree map, *)
(* the generic flow-field solver, the temporary graph helper and the line  *)
(* rasteriser are collaborators whose code is elsewhere in the repository; *)
(* they are modelled from their documented contracts.                      *)
(***************************************************************************)
EXTENDS Integers, Sequences, FiniteSets, TLC

\* Side of the square grid of every map (cells are (x, y) with 0 <= x, y < N).
N == 5

\* The defaulted "infinity" of the cost tables.
inf == 1061109567

\* Unit costs of the distance function: horizontal/vertical and diagonal.
CostHV == 10
CostDiag == 14

\* The absent node (a null QdNode pointer) and the absent map (a null map).
NullNode == [x1 |-> -1, y1 |-> -1, x2 |-> -1, y2 |-> -1]
NullMap == 0

Abs(i) == IF i < 0 THEN -i ELSE i
Min2(a, b) == IF a < b THEN a ELSE b
Max2(a, b) == IF a < b THEN b ELSE a

---------------------------------------------------------------------------
(* The quadtree map: the collaborator the path finder reads.               *)

Rect(a, b, c, d) == [x1 |-> a, y1 |-> b, x2 |-> c, y2 |-> d]

RectCells(r) == {<<x, y>> : x \in r.x1 .. r.x2, y \in r.y1 .. r.y2}

InRect(x, y, r) == x >= r.x1 /\ x <= r.x2 /\ y >= r.y1 /\ y <= r.y2

\* QuadtreeMap::PackXY / UnpackXY.
PackXY(x, y) == x * N + y
UnpackXY(v) == <<v \div N, v % N>>

\* QuadtreeMap::Distance: the octile distance with unit costs 10 and 14.
Distance(xa, ya, xb, yb) ==
  LET dx == Abs(xa - xb)
      dy == Abs(ya - yb)
  IN  CostDiag * Min2(dx, dy) + CostHV * (Max2(dx, dy) - Min2(dx, dy))

CellDistance(u, v) ==
  Distance(UnpackXY(u)[1], UnpackXY(u)[2], UnpackXY(v)[1], UnpackXY(v)[2])

\* The maps held by the QuadtreeMapX indexer, one per (agentSize, terrainTypes)
\* setting it was built for; each map is given by its obstacle cells.
MapObstacles ==
  <<  {},
      {<<4, 4>>},
      {<<0, 1>>, <<1, 0>>, <<1, 1>>} >>

MapIds == 1 .. Len(MapObstacles)

\* QuadtreeMapX::Get: the map of a setting, or the null map.
Get(agentSize, terrainTypes) ==
  IF terrainTypes = 1 /\ agentSize \in 1 .. 2 THEN agentSize
  ELSE IF terrainTypes = 2 /\ agentSize = 1 THEN 3
  ELSE NullMap

\* The leaves of the quadtree: a rectangle is split in four (at its middle)
\* until it holds no obstacle or nothing but obstacles.
RECURSIVE SplitLeaves(_, _)
SplitLeaves(obs, r) ==
  LET cells == RectCells(r)
      n == Cardinality(cells \cap obs)
  IN  IF n = 0 \/ n = Cardinality(cells) THEN {r}
      ELSE LET x3 == r.x1 + (r.x2 - r.x1) \div 2
               y3 == r.y1 + (r.y2 - r.y1) \div 2
               children == { c \in { Rect(r.x1, r.y1, x3, y3),
                                     Rect(r.x1, y3 + 1, x3, r.y2),
                                     Rect(x3 + 1, r.y1, r.x2, y3),
                                     Rect(x3 + 1, y3 + 1, r.x2, r.y2) } :
                             c.x1 <= c.x2 /\ c.y1 <= c.y2 }
           IN  UNION { SplitLeaves(obs, c) : c \in children }

Leaves == [k \in MapIds |-> SplitLeaves(MapObstacles[k], Rect(0, 0, N - 1, N - 1))]

\* node->isLeaf && node->objects.empty()
EmptyLeaves ==
  [k \in MapIds |-> { l \in Leaves[k] : RectCells(l) \cap MapObstacles[k] = {} }]

\* QuadtreeMap::IsObstacle.
IsObstacle(k, x, y) == <<x, y>> \in MapObstacles[k]

\* QuadtreeMap::FindNode: the leaf holding (x, y), null when out of bounds.
LeafOfCell ==
  [k \in MapIds |->
    [c \in (0 .. N - 1) \X (0 .. N - 1) |->
       CHOOSE l \in Leaves[k] : InRect(c[1], c[2], l)]]
FindNode(k, x, y) ==
  IF x >= 0 /\ x < N /\ y >= 0 /\ y < N THEN LeafOfCell[k][<<x, y>>] ELSE NullNode

\* The gates of the map: one per pair of side-adjacent cells on the shared
\* border of two empty leaves, kept with the leaf of its cell a.
Gates ==
  [k \in MapIds |->
    [A \in EmptyLeaves[k] |->
      UNION { { [a |-> PackXY(p[1][1], p[1][2]), b |-> PackXY(p[2][1], p[2][2]),
                 aNode |-> A, bNode |-> B] :
                p \in { q \in RectCells(A) \X RectCells(B) :
                          Abs(q[1][1] - q[2][1]) + Abs(q[1][2] - q[2][2]) = 1 } } :
              B \in EmptyLeaves[k] \ {A} } ] ]

\* QuadtreeMap::ForEachGateInNode.
GatesInNode(k, node) == IF node \in EmptyLeaves[k] THEN Gates[k][node] ELSE {}

\* The gate cells of a leaf: the cells a of its gates.
GateCells == [k \in MapIds |-> [A \in EmptyLeaves[k] |-> { g.a : g \in Gates[k][A] }]]
GateCellsOfNode(k, node) == IF node \in EmptyLeaves[k] THEN GateCells[k][node] ELSE {}

\* QuadtreeMap::IsGateCell.
IsGateCell(k, node, u) == u \in GateCellsOfNode(k, node)

\* QuadtreeMap::NodesInRange: the leaves that intersect the rectangle.
Overlaps(l, r) == ~(l.x2 < r.x1 \/ l.x1 > r.x2 \/ l.y2 < r.y1 \/ l.y1 > r.y2)
NodesInRange(k, r) == { l \in Leaves[k] : Overlaps(l, r) }

\* QuadtreeMap::ForEachNeighbourNodes: the empty leaves a leaf shares gates
\* with, at the distance between the two centres.
CenterX(l) == l.x1 + (l.x2 - l.x1) \div 2
CenterY(l) == l.y1 + (l.y2 - l.y1) \div 2
NodeGraph ==
  [k \in MapIds |->
    [A \in EmptyLeaves[k] |->
      LET nb == { g.bNode : g \in Gates[k][A] }
      IN  [B \in nb |-> Distance(CenterX(A), CenterY(A), CenterX(B), CenterY(B))] ] ]

\* The static gate graph: a gate cell reaches the cell across each of its
\* gates and every other gate cell of its own leaf.
GateGraph ==
  [k \in MapIds |->
    [u \in 0 .. N * N - 1 |->
      LET node == FindNode(k, UnpackXY(u)[1], UnpackXY(u)[2])
          nb == IF IsGateCell(k, node, u)
                THEN { g.b : g \in { h \in GatesInNode(k, node) : h.a = u } }
                       \cup (GateCellsOfNode(k, node) \ {u})
                ELSE {}
      IN  [v \in nb |-> CellDistance(u, v)] ] ]

---------------------------------------------------------------------------
(* The generic flow-field solver (FFA1 on leaves, FFA2 on gate cells): a   *)
(* Dijkstra flood from the source.  A field maps a vertex to its cost and  *)
(* its next vertex; every relaxation writes the field.                     *)

EmptyField == [v \in {} |-> [cost |-> 0, next |-> 0]]

FieldSize(field) == Cardinality(DOMAIN field)

\* The top of the priority queue: the open vertex of least (cost, key).
FFAPick(field, open, Key) ==
  CHOOSE u \in open :
    \A v \in open : field[u].cost < field[v].cost
                    \/ (field[u].cost = field[v].cost /\ Key[u] <= Key[v])

\* Expanding u: cost(v) > cost(u) + w sets cost(v) and next(v) = u, for the
\* unvisited neighbours the filter lets through.  A vertex the graph holds
\* no edge for (a leaf without gates) has no neighbour to visit.
FFAExpand(field, u, vis, Nbr, Allowed) ==
  LET edges == IF u \in DOMAIN Nbr THEN Nbr[u] ELSE << >>
      better == { v \in DOMAIN edges :
                    /\ v \notin vis
                    /\ v \in Allowed
                    /\ (v \notin DOMAIN field \/ field[u].cost + edges[v] < field[v].cost) }
  IN  [v \in DOMAIN field \cup better |->
         IF v \in better THEN [cost |-> field[u].cost + edges[v], next |-> u]
         ELSE field[v]]

\* The loop of Compute.  stopf counts in n the marked vertices that are in
\* StopSet and stops the flood once n >= |StopSet|, before u is expanded.
RECURSIVE FFALoop(_, _, _, _, _, _, _)
FFALoop(field, vis, n, Nbr, Allowed, Key, StopSet) ==
  LET open == DOMAIN field \ vis
  IN  IF open = {} THEN field
      ELSE LET u == FFAPick(field, open, Key)
               n2 == IF u \in StopSet THEN n + 1 ELSE n
           IN  IF n2 >= Cardinality(StopSet) THEN field
               ELSE FFALoop(FFAExpand(field, u, vis \cup {u}, Nbr, Allowed),
                            vis \cup {u}, n2, Nbr, Allowed, Key, StopSet)

\* FlowFieldAlgorithm::Compute(source, field, neighbours, filter, stopf).
FFACompute(source, n0, Nbr, Allowed, Key, StopSet) ==
  FFALoop([v \in {source} |-> [cost |-> 0, next |-> source]], {}, n0,
          Nbr, Allowed, Key, StopSet)

\* ComputeStraightLine(x, y, x1, y1, collector, 2): the second cell of the
\* Bresenham line from (x, y) to (x1, y1).
StraightLineSecondCell(x, y, xb, yb) ==
  LET dx == Abs(xb - x)
      dy == -Abs(yb - y)
      sx == IF x < xb THEN 1 ELSE -1
      sy == IF y < yb THEN 1 ELSE -1
      e2 == 2 * (dx + dy)
  IN  << IF e2 >= dy THEN x + sx ELSE x, IF e2 <= dx THEN y + sy ELSE y >>

---------------------------------------------------------------------------
(* The path finder: FlowFieldPathFinderImpl behind FlowFieldPathFinder.    *)

VARIABLES
  m,                                  \* the map bound by Reset (NullMap before)
  x2, y2, t,                          \* the target and its packed id
  qrange,                             \* the query rectangle
  tNode,                              \* the leaf of the target, or NullNode
  nodesOverlappingQueryRange,         \* in the order the set is iterated
  gatesInNodesOverlappingQueryRange,
  gateCellsOnNodeFields,
  tmp,                                \* the temporary graph: edges <<u, v, cost>>
  nodeFlowField, gateFlowField, finalFlowField,
  call,                               \* the last call: its name, flag and repeat mark
  ret                                 \* and the code it returned

vars == << m, x2, y2, t, qrange, tNode, nodesOverlappingQueryRange,
           gatesInNodesOverlappingQueryRange, gateCellsOnNodeFields, tmp,
           nodeFlowField, gateFlowField, finalFlowField, call, ret >>

Range(seq) == { seq[i] : i \in 1 .. Len(seq) }

Cells == 0 .. N * N - 1

NodeKey(node) == PackXY(node.x1, node.y1)

\* The order a set of nodes is iterated in: an unordered set keeps one order
\* for as long as it is not modified; two orders are modelled.
RECURSIVE NodeOrder(_, _)
NodeOrder(S, descending) ==
  IF S = {} THEN << >>
  ELSE LET first == CHOOSE n \in S :
                      \A o \in S : IF descending THEN NodeKey(o) <= NodeKey(n)
                                   ELSE NodeKey(n) <= NodeKey(o)
       IN  << first >> \o NodeOrder(S \ {first}, descending)

\* GetOverlap(a, b, overlap).
GetOverlap(a, b) ==
  Rect(Max2(a.x1, b.x1), Max2(a.y1, b.y1), Min2(a.x2, b.x2), Min2(a.y2, b.y2))
HasOverlap(a, b) ==
  GetOverlap(a, b).x1 <= GetOverlap(a, b).x2 /\ GetOverlap(a, b).y1 <= GetOverlap(a, b).y2

\* PathFinderHelper::ConnectCellsOnTmpGraph(u, v): one edge each way.
ConnectCellsOnTmpGraph(u, v) ==
  { <<u, v, CellDistance(u, v)>>, <<v, u, CellDistance(u, v)>> }

\* PathFinderHelper::AddCellToNodeOnTmpGraph(u, node): u to every gate cell.
AddCellToNodeOnTmpGraph(k, u, node) ==
  UNION { ConnectCellsOnTmpGraph(u, c) : c \in GateCellsOfNode(k, node) \ {u} }

\* tmp.ForEachNeighbours(u).
TmpNeighbours(graph, u) == { e[2] : e \in { d \in graph : d[1] = u } }

\* PathFinderHelper::ForEachNeighbourGateWithST: the neighbours of every cell
\* on the temporary graph and on the gate graph of the map.
GateNeighbours(k, graph) ==
  [u \in Cells |->
     [v \in DOMAIN GateGraph[k][u] \cup TmpNeighbours(graph, u) |-> CellDistance(u, v)]]

Init ==
  /\ m = NullMap
  /\ x2 = 0 /\ y2 = 0 /\ t = 0
  /\ qrange = Rect(0, 0, 0, 0)
  /\ tNode = NullNode
  /\ nodesOverlappingQueryRange = << >>
  /\ gatesInNodesOverlappingQueryRange = {}
  /\ gateCellsOnNodeFields = {}
  /\ tmp = {}
  /\ nodeFlowField = EmptyField
  /\ gateFlowField = EmptyField
  /\ finalFlowField = EmptyField
  /\ call = [op |-> "none", flag |-> FALSE, again |-> FALSE, args |-> << >>]
  /\ ret = 0

\* The qrange test of lines 56.
ValidRange(q) == q.x1 <= q.x2 /\ q.y1 <= q.y2

\* Lines 68-70: the obstacle-free leaves that overlap qrange.
CollectNodesOverlappingQueryRange(k, q) ==
  { node \in NodesInRange(k, q) : node \in EmptyLeaves[k] }

\* Lines 72-76 and 86-118: the gate cells of those leaves, then t when it is
\* no gate cell and lies in qrange, then the cells of the target leaf within
\* qrange that are connected to t on the temporary graph.
OverlapCells(k, tn, tt, q) ==
  IF HasOverlap(tn, q)
  THEN { u \in { PackXY(c[1], c[2]) : c \in RectCells(GetOverlap(tn, q)) } :
           u # tt /\ ~IsGateCell(k, tn, u) }
  ELSE {}

ResetGates(k, nodes, tn, tx, ty, q) ==
  UNION { GateCellsOfNode(k, node) : node \in nodes }
  \cup (IF ~IsGateCell(k, tn, PackXY(tx, ty)) /\ InRect(tx, ty, q)
        THEN {PackXY(tx, ty)} ELSE {})
  \cup OverlapCells(k, tn, PackXY(tx, ty), q)

ResetTmp(k, tn, tt, q) ==
  (IF ~IsGateCell(k, tn, tt) THEN AddCellToNodeOnTmpGraph(k, tt, tn) ELSE {})
  \cup UNION { ConnectCellsOnTmpGraph(u, tt) : u \in OverlapCells(k, tn, tt, q) }

\* What Reset would do without line 53: tNode keeps its old value.
ResetTNodeKept(old) == old
\* Line 53: tNode = nullptr, before anything is validated.
ResetTNode(old) == NullNode

\* FlowFieldPathFinderImpl::Reset(m, x2, y2, qrange).
ImplReset(k, tx, ty, q, descending) ==
  /\ m' = k
  /\ x2' = tx /\ y2' = ty
  /\ qrange' = q
  /\ IF ~ValidRange(q)
     THEN /\ tNode' = ResetTNode(tNode)
          /\ UNCHANGED << t, nodesOverlappingQueryRange,
                          gatesInNodesOverlappingQueryRange, gateCellsOnNodeFields,
                          tmp, nodeFlowField, gateFlowField, finalFlowField >>
     ELSE /\ t' = PackXY(tx, ty)
          /\ tNode' = FindNode(k, tx, ty)
          /\ IF FindNode(k, tx, ty) = NullNode
             THEN UNCHANGED << nodesOverlappingQueryRange,
                               gatesInNodesOverlappingQueryRange,
                               gateCellsOnNodeFields, tmp, nodeFlowField,
                               gateFlowField, finalFlowField >>
             ELSE LET tn == FindNode(k, tx, ty)
                      nodes == CollectNodesOverlappingQueryRange(k, q)
                  IN  /\ nodeFlowField' = EmptyField
                      /\ gateFlowField' = EmptyField
                      /\ finalFlowField' = EmptyField
                      /\ nodesOverlappingQueryRange' = NodeOrder(nodes, descending)
                      /\ gatesInNodesOverlappingQueryRange' =
                           ResetGates(k, nodes, tn, tx, ty, q)
                      /\ gateCellsOnNodeFields' = {}
                      /\ tmp' = ResetTmp(k, tn, PackXY(tx, ty), q)

\* What the facade would return without the test of line 65.
ResetCodeAlwaysZero(k) == 0
\* Lines 65 and 67 of the facade: -1 when no map was found, 0 otherwise.
ResetCode(k) == IF k = NullMap THEN -1 ELSE 0

\* FlowFieldPathFinder::Reset(x2, y2, dest, agentSize, walkableterrainTypes).
Reset(tx, ty, dest, agentSize, terrainTypes, descending) ==
  /\ call' = [op |-> "Reset", flag |-> FALSE, again |-> FALSE,
              args |-> <<tx, ty, dest, agentSize, terrainTypes>>]
  /\ IF Get(agentSize, terrainTypes) = NullMap
     THEN /\ ret' = ResetCode(NullMap)
          /\ UNCHANGED << m, x2, y2, t, qrange, tNode, nodesOverlappingQueryRange,
                          gatesInNodesOverlappingQueryRange, gateCellsOnNodeFields,
                          tmp, nodeFlowField, gateFlowField, finalFlowField >>
     ELSE /\ ImplReset(Get(agentSize, terrainTypes), tx, ty, dest, descending)
          /\ ret' = ResetCode(Get(agentSize, terrainTypes))

\* Lines 126-128 (and 190-191, 244-245): the target has no leaf, or is an
\* obstacle.
Unreachable == tNode = NullNode \/ IsObstacle(m, x2, y2)

\* What the counter would be if it were an attribute kept across calls.
NodeStopCounterStale ==
  Cardinality(DOMAIN nodeFlowField \cap Range(nodesOverlappingQueryRange))
\* Line 137: the counter n of stopf starts from zero in every call.
NodeStopCounter == 0

\* What the flood would give if stopf held as soon as tNode is marked.
NodeFlowFieldResultTargetOnly ==
  FFACompute(tNode, NodeStopCounter, NodeGraph[m], EmptyLeaves[m],
             [node \in UNION { Leaves[k] : k \in MapIds } |-> NodeKey(node)], {tNode})
\* Lines 131-148: the node field, flooded from tNode over the leaf graph,
\* stopped once every leaf of nodesOverlappingQueryRange is marked.
NodeFlowFieldResult ==
  FFACompute(tNode, NodeStopCounter, NodeGraph[m], EmptyLeaves[m],
             [node \in UNION { Leaves[k] : k \in MapIds } |-> NodeKey(node)],
             Range(nodesOverlappingQueryRange))

\* FlowFieldPathFinderImpl::ComputeNodeFlowField().
ComputeNodeFlowField ==
  /\ call' = [op |-> "ComputeNode", flag |-> FALSE, again |-> call.op = "ComputeNode",
              args |-> << >>]
  /\ IF Unreachable
     THEN ret' = -1 /\ UNCHANGED nodeFlowField
     ELSE ret' = 0 /\ nodeFlowField' = NodeFlowFieldResult
  /\ UNCHANGED << m, x2, y2, t, qrange, tNode, nodesOverlappingQueryRange,
                  gatesInNodesOverlappingQueryRange, gateCellsOnNodeFields, tmp,
                  gateFlowField, finalFlowField >>

\* FlowFieldPathFinderImpl::collectGateCellsOnNodeField().
collectGateCellsOnNodeField ==
  {t}
  \cup { v \in TmpNeighbours(tmp, t) : ~IsGateCell(m, tNode, v) }
  \cup UNION { UNION { {gate.a, gate.b} :
                       gate \in { g \in GatesInNode(m, node) :
                                    g.bNode = nodeFlowField[node].next } } :
               node \in DOMAIN nodeFlowField \ {tNode} }

\* Lines 194-219: the gate field, flooded from t over the gate graph and the
\* temporary graph, through the cells of gateCellsOnNodeFields only when
\* useNodeFlowField is set.
GateFlowFieldResult(useNodeFlowField, allowed) ==
  FFACompute(t, 0, GateNeighbours(m, tmp),
             IF useNodeFlowField THEN allowed ELSE Cells,
             [v \in Cells |-> v],
             gatesInNodesOverlappingQueryRange)

\* FlowFieldPathFinderImpl::ComputeGateFlowField(useNodeFlowField).
ComputeGateFlowField(useNodeFlowField) ==
  /\ call' = [op |-> "ComputeGate", flag |-> useNodeFlowField,
              again |-> call.op = "ComputeGate" /\ call.flag = useNodeFlowField,
              args |-> << >>]
  /\ IF Unreachable
     THEN ret' = -1 /\ UNCHANGED << gateFlowField, gateCellsOnNodeFields >>
     ELSE /\ ret' = 0
          /\ gateCellsOnNodeFields' =
               IF useNodeFlowField THEN collectGateCellsOnNodeField
               ELSE gateCellsOnNodeFields
          /\ gateFlowField' =
               GateFlowFieldResult(useNodeFlowField, collectGateCellsOnNodeField)
  /\ UNCHANGED << m, x2, y2, t, qrange, tNode, nodesOverlappingQueryRange,
                  gatesInNodesOverlappingQueryRange, tmp, nodeFlowField,
                  finalFlowField >>

---------------------------------------------------------------------------
(* The final flow field: the tables f, from and b of                       *)
(* ComputeFinalFlowFieldInQueryRange, and the two sweeps over each leaf.   *)

InGrid(x, y) == x >= 0 /\ x < N /\ y >= 0 /\ y < N

\* f[x][y] of a defaulted table: inf where nothing was stored.
F(tab, x, y) == IF InGrid(x, y) THEN tab.f[PackXY(x, y)] ELSE inf

\* What the seeding would record without the line step: the next itself.
findNeighbourCellByNextFar(x, y, xb, yb) == <<xb, yb>>
\* FlowFieldPathFinderImpl::findNeighbourCellByNext(x, y, x1, y1, x2, y2).
findNeighbourCellByNext(x, y, xb, yb) ==
  LET dx == xb - x
      dy == yb - y
  IN  IF dx >= -1 /\ dx <= 1 /\ dy >= -1 /\ dy <= 1
      THEN <<xb, yb>>
      ELSE StraightLineSecondCell(x, y, xb, yb)

\* Lines 264-283: f, from and b as seeded from the gate field.
SeedFrom(v) ==
  LET c == UnpackXY(v)
      nc == UnpackXY(gateFlowField[v].next)
      nb == findNeighbourCellByNext(c[1], c[2], nc[1], nc[2])
  IN  PackXY(nb[1], nb[2])

SeedTable ==
  [ f    |-> [v \in Cells |-> IF v \in DOMAIN gateFlowField
                              THEN gateFlowField[v].cost ELSE inf],
    from |-> [v \in Cells |-> IF v \in DOMAIN gateFlowField
                                 /\ InRect(UnpackXY(v)[1], UnpackXY(v)[2], qrange)
                              THEN SeedFrom(v) ELSE inf],
    b    |-> DOMAIN gateFlowField ]

\* What a relaxation would store if it left the unit cost out.
RelaxFree(cur, guard, tab, px, py, c) ==
  IF guard /\ cur.f > F(tab, px, py)
  THEN [f |-> F(tab, px, py), from |-> PackXY(px, py)]
  ELSE cur
\* One guarded relaxation of the cell being computed: cur is its (f, from).
Relax(cur, guard, tab, px, py, c) ==
  IF guard /\ cur.f > F(tab, px, py) + c
  THEN [f |-> F(tab, px, py) + c, from |-> PackXY(px, py)]
  ELSE cur

Store(tab, x, y, cur) ==
  [tab EXCEPT !.f[PackXY(x, y)] = cur.f,
              !.from[PackXY(x, y)] = IF cur.from # -1 THEN cur.from ELSE @]

\* Lines 323-343: the body of the first sweep for the cell (x, y).
DP1Cell(tab, node, x, y, c1, c2) ==
  IF PackXY(x, y) \in tab.b THEN tab
  ELSE LET r0 == [f |-> F(tab, x, y), from |-> -1]
           r1 == Relax(r0, x > 0 /\ y > 0, tab, x - 1, y - 1, c2)   \* left-up
           r2 == Relax(r1, x > 0, tab, x - 1, y, c1)                \* up
           r3 == Relax(r2, y > 0, tab, x, y - 1, c1)                \* left
           r4 == Relax(r3, x > 0 /\ y < node.y1, tab, x - 1, y + 1, c2)  \* right-up
       IN  Store(tab, x, y, r4)

\* Lines 358-378: the body of the second sweep for the cell (x, y).
DP2Cell(tab, node, x, y, c1, c2) ==
  IF PackXY(x, y) \in tab.b THEN tab
  ELSE LET r0 == [f |-> F(tab, x, y), from |-> -1]
           r1 == Relax(r0, x < node.x2 /\ y < node.y2, tab, x + 1, y + 1, c2)  \* right-bottom
           r2 == Relax(r1, x < node.x2, tab, x + 1, y, c1)          \* bottom
           r3 == Relax(r2, y < node.y2, tab, x, y + 1, c1)          \* right
           r4 == Relax(r3, x < node.x2 /\ y > 0, tab, x + 1, y - 1, c2)  \* left-bottom
       IN  Store(tab, x, y, r4)

NodeHeight(node) == node.y2 - node.y1 + 1
NodeArea(node) == (node.x2 - node.x1 + 1) * NodeHeight(node)

\* The i-th cell of a leaf, x after x and y after y from (x1, y1).
NodeCellX(node, i) == node.x1 + (i \div NodeHeight(node))
NodeCellY(node, i) == node.y1 + (i % NodeHeight(node))

RECURSIVE DP1Loop(_, _, _, _, _)
DP1Loop(tab, node, i, c1, c2) ==
  IF i >= NodeArea(node) \/ tab.b # tab.b THEN tab
  ELSE DP1Loop(DP1Cell(tab, node, NodeCellX(node, i), NodeCellY(node, i), c1, c2),
               node, i + 1, c1, c2)

RECURSIVE DP2Loop(_, _, _, _, _)
DP2Loop(tab, node, i, c1, c2) ==
  IF i < 0 \/ tab.b # tab.b THEN tab
  ELSE DP2Loop(DP2Cell(tab, node, NodeCellX(node, i), NodeCellY(node, i), c1, c2),
               node, i - 1, c1, c2)

\* FlowFieldPathFinderImpl::computeFinalFlowFieldDP1: from the left-top corner
\* to the right-bottom corner.
computeFinalFlowFieldDP1(node, tab, c1, c2) == DP1Loop(tab, node, 0, c1, c2)

\* FlowFieldPathFinderImpl::computeFinalFlowFieldDP2: from the right-bottom
\* corner to the left-top corner.
computeFinalFlowFieldDP2(node, tab, c1, c2) ==
  DP2Loop(tab, node, NodeArea(node) - 1, c1, c2)

\* Lines 286-293: both sweeps over each leaf of nodesOverlappingQueryRange, in
\* the order the set is iterated.
RECURSIVE SweepNodes(_, _, _, _)
SweepNodes(tab, nodes, c1, c2) ==
  IF nodes = << >> THEN tab
  ELSE SweepNodes(
         computeFinalFlowFieldDP2(Head(nodes),
           computeFinalFlowFieldDP1(Head(nodes), tab, c1, c2), c1, c2),
         Tail(nodes), c1, c2)

FinalTable ==
  SweepNodes(SeedTable, nodesOverlappingQueryRange,
             Distance(0, 0, 0, 1), Distance(0, 0, 1, 1))

\* What would be emitted if the loops ran over the grid, not over qrange.
FinalFlowFieldResultWholeGrid(tab) ==
  LET emitted == { v \in Cells : tab.f[v] # inf /\ tab.from[v] # inf }
  IN  [v \in emitted |-> [cost |-> tab.f[v], next |-> tab.from[v]]]
\* Lines 297-308: the cells of qrange whose f and from are both set.
FinalFlowFieldResult(tab) ==
  LET emitted == { v \in Cells :
                     /\ InRect(UnpackXY(v)[1], UnpackXY(v)[2], qrange)
                     /\ tab.f[v] # inf
                     /\ tab.from[v] # inf }
  IN  [v \in emitted |-> [cost |-> tab.f[v], next |-> tab.from[v]]]

\* FlowFieldPathFinderImpl::ComputeFinalFlowFieldInQueryRange().
ComputeFinalFlowFieldInQueryRange ==
  /\ call' = [op |-> "ComputeFinal", flag |-> FALSE, again |-> call.op = "ComputeFinal",
              args |-> << >>]
  /\ IF Unreachable
     THEN ret' = -1 /\ UNCHANGED finalFlowField
     ELSE ret' = 0 /\ finalFlowField' = FinalFlowFieldResult(FinalTable)
  /\ UNCHANGED << m, x2, y2, t, qrange, tNode, nodesOverlappingQueryRange,
                  gatesInNodesOverlappingQueryRange, gateCellsOnNodeFields, tmp,
                  nodeFlowField, gateFlowField >>

---------------------------------------------------------------------------
(* The calls a client makes, with their arguments drawn from small sets.   *)

FullRange == Rect(0, 0, N - 1, N - 1)

\* The settings a map was built for, and one it was not built for.
Settings == { <<1, 1>>, <<2, 1>>, <<1, 2>> }
NoSetting == <<2, 2>>

\* Targets: free cells and the obstacle cell of the second map.
Targets == { <<0, 1>>, <<0, 3>>, <<2, 2>>, <<4, 4>> }

\* A cell out of the bounds of every map.
OutOfBounds == <<N, 0>>

\* Query rectangles: the whole map and parts of it.
QRanges == { FullRange, Rect(0, 1, 3, 3), Rect(3, 1, 4, 4), Rect(0, 0, 1, 1) }

\* An ill-formed rectangle.
IllFormed == Rect(2, 2, 1, 1)

\* The queries of well-formed calls.
Next ==
  \/ \E tg \in Targets, dest \in QRanges, s \in Settings, descending \in BOOLEAN :
       Reset(tg[1], tg[2], dest, s[1], s[2], descending)
  \/ ComputeNodeFlowField
  \/ \E useNodeFlowField \in BOOLEAN : ComputeGateFlowField(useNodeFlowField)
  \/ ComputeFinalFlowFieldInQueryRange

Spec == Init /\ [][Next]_vars

\* The queries of a client that also makes the calls that fail: a setting
\* with no map, a target out of bounds, a target on an obstacle, an
\* ill-formed rectangle.
ErrSettings == { <<2, 1>>, NoSetting }
ErrTargets == { <<0, 3>>, <<4, 4>>, OutOfBounds }
ErrQRanges == { FullRange, IllFormed }

NextErr ==
  \/ \E tg \in ErrTargets, dest \in ErrQRanges, s \in ErrSettings :
       Reset(tg[1], tg[2], dest, s[1], s[2], FALSE)
  \/ ComputeNodeFlowField
  \/ \E useNodeFlowField \in BOOLEAN : ComputeGateFlowField(useNodeFlowField)
  \/ ComputeFinalFlowFieldInQueryRange

SpecErr == Init /\ [][NextErr]_vars

---------------------------------------------------------------------------
(* Properties of the final flow field.                                     *)

CellX(v) == UnpackXY(v)[1]
CellY(v) == UnpackXY(v)[2]

\* The Chebyshev distance between two cells.
Chebyshev(u, v) == Max2(Abs(CellX(u) - CellX(v)), Abs(CellY(u) - CellY(v)))

InQRange(v) == InRect(CellX(v), CellY(v), qrange)

\* The entries of the final field that were seeded from the gate field, and
\* those the sweeps derived.
SeededEntries == DOMAIN finalFlowField \cap DOMAIN gateFlowField
DerivedEntries == DOMAIN finalFlowField \ DOMAIN gateFlowField

\* The last call computed the final field, from a gate field computed since
\* the last Reset.
FinalComputed ==
  call.op = "ComputeFinal" /\ ret = 0 /\ DOMAIN gateFlowField # {}

C8_NextIsAdjacent ==
  \A v \in DOMAIN finalFlowField :
    /\ finalFlowField[v].next \in Cells
    /\ Chebyshev(v, finalFlowField[v].next) <= 1

\* A final field with a derived entry and with a seeded entry whose next on
\* the gate field is more than one cell away.
C8_Witness ==
  /\ FinalComputed
  /\ DerivedEntries # {}
  /\ \E v \in SeededEntries : Chebyshev(v, gateFlowField[v].next) > 1

---------------------------------------------------------------------------
(* Reachability on the leaf graph, and the coverage of the fields.         *)

\* The leaves connected to the given ones through ForEachNeighbourNodes.
RECURSIVE ConnectedLeaves(_, _)
ConnectedLeaves(k, S) ==
  LET more == UNION { DOMAIN NodeGraph[k][A] : A \in S } \ S
  IN  IF more = {} THEN S ELSE ConnectedLeaves(k, S \cup more)

\* The leaves reachable from the leaf of the target.
ReachableLeaves ==
  IF tNode \in EmptyLeaves[m] THEN ConnectedLeaves(m, {tNode}) ELSE {}

\* The cells reachable from the target: the cells of those leaves.
ReachableCells ==
  { PackXY(c[1], c[2]) : c \in UNION { RectCells(l) : l \in ReachableLeaves } }

GateFieldInOrder ==
  \/ gateFlowField = GateFlowFieldResult(FALSE, {})
  \/ /\ DOMAIN nodeFlowField # {}
     /\ gateFlowField = GateFlowFieldResult(TRUE, collectGateCellsOnNodeField)

C6_EveryOverlappingLeaf ==
  (call.op = "ComputeNode" /\ ret = 0) =>
    Range(nodesOverlappingQueryRange) \subseteq DOMAIN nodeFlowField

\* C6 as amended: whenever ComputeNodeFlowField returns 0, every leaf of
\* nodesOverlappingQueryRange that is connected to the leaf of the target on
\* the leaf graph is in nodeFlowField.
C6_EveryReachableOverlappingLeaf ==
  (call.op = "ComputeNode" /\ ret = 0) =>
    (Range(nodesOverlappingQueryRange) \cap ReachableLeaves) \subseteq DOMAIN nodeFlowField

\* The node field of a query whose rectangle overlaps a leaf
\* that is not connected to the leaf of the target, and several that are.
C6_Witness ==
  /\ call.op = "ComputeNode" /\ ret = 0
  /\ Range(nodesOverlappingQueryRange) \ ReachableLeaves # {}
  /\ Cardinality(Range(nodesOverlappingQueryRange) \cap ReachableLeaves) > 1
  /\ FieldSize(nodeFlowField) > 1

---------------------------------------------------------------------------
(* Costs along next pointers, and the table of the sweeps.                 *)

\* The unit cost of a step between two adjacent cells: c1 along an axis, c2
\* along a diagonal.
StepCost(u, v) ==
  IF CellX(u) = CellX(v) \/ CellY(u) = CellY(v)
  THEN Distance(0, 0, 0, 1) ELSE Distance(0, 0, 1, 1)

NodeFieldTelescopes ==
  \A v \in DOMAIN nodeFlowField \ {tNode} :
    nodeFlowField[v].cost =
      nodeFlowField[nodeFlowField[v].next].cost + NodeGraph[m][nodeFlowField[v].next][v]

GateFieldTelescopes ==
  \A v \in DOMAIN gateFlowField \ {t} :
    gateFlowField[v].cost =
      gateFlowField[gateFlowField[v].next].cost + CellDistance(v, gateFlowField[v].next)

FinalFieldTelescopes ==
  \A v \in DOMAIN finalFlowField \ {t} :
    finalFlowField[v].next \in DOMAIN finalFlowField =>
      finalFlowField[v].cost =
        finalFlowField[finalFlowField[v].next].cost + StepCost(v, finalFlowField[v].next)

\* C7: in each completed field (node, gate and final), every entry v other
\* than the source has cost[v] = cost[next[v]] + edge_weight(v, next[v]); in
\* the final field the edge weight is c1 (axis step) or c2 (diagonal step).
C7_SuccessorTelescoping ==
  NodeFieldTelescopes /\ GateFieldTelescopes /\ FinalFieldTelescopes

\* The gate-field-seeded cells of a leaf.
LeafSeeds(node) ==
  { s \in DOMAIN gateFlowField : InRect(CellX(s), CellY(s), node) }

\* The least, over the seeds of the leaf, of the seed's gate cost plus the
\* octile distance from the seed to p.
BestSeedCost(node, p) ==
  LET costs == { gateFlowField[s].cost + CellDistance(s, p) : s \in LeafSeeds(node) }
  IN  CHOOSE c \in costs : \A d \in costs : c <= d

\* C10: after both sweeps every non-seeded cell p of a leaf of
\* nodesOverlappingQueryRange has f[p] = the least, over the seeded cells s of
\* that leaf, of gateFlowField.cost[s] + the octile distance between s and p.
C10_SweepsGiveOctileDistance ==
  (FinalComputed /\ GateFieldInOrder) =>
    \A i \in 1 .. Len(nodesOverlappingQueryRange) :
      LET node == nodesOverlappingQueryRange[i]
      IN  LeafSeeds(node) # {} =>
            \A c \in RectCells(node) :
              PackXY(c[1], c[2]) \notin DOMAIN gateFlowField =>
                FinalTable.f[PackXY(c[1], c[2])] = BestSeedCost(node, PackXY(c[1], c[2]))

---------------------------------------------------------------------------
(* Repeated calls, and the calls that fail.                                *)

ComputeOps == { "ComputeNode", "ComputeGate", "ComputeFinal" }

FailedReset ==
  /\ call.op = "Reset"
  /\ Get(call.args[4], call.args[5]) # NullMap
  /\ ~ValidRange(call.args[3]) \/ ~InGrid(call.args[1], call.args[2])

\* C2: when a Reset that fails returns, nodeFlowField, gateFlowField and
\* finalFlowField are empty and the temporary graph holds no edge.
C2_FailedResetClears ==
  FailedReset =>
    /\ DOMAIN nodeFlowField = {}
    /\ DOMAIN gateFlowField = {}
    /\ DOMAIN finalFlowField = {}
    /\ tmp = {}

\* C3 as stated: the public Reset returns 0 on success and -1 when the
\* rectangle is ill-formed or the target is out of bounds.
C3_ResetReturnsMinusOneOnBadQuery ==
  call.op = "Reset" =>
    IF ~ValidRange(call.args[3]) \/ ~InGrid(call.args[1], call.args[2])
    THEN ret = -1
    ELSE (Get(call.args[4], call.args[5]) # NullMap => ret = 0)

\* C3 as amended: the public Reset returns -1 exactly when no map exists for
\* (agentSize, terrainTypes) and 0 otherwise, also when the rectangle is
\* ill-formed or the target is out of bounds.
C3_ResetReturnsMinusOneOnNoMap ==
  call.op = "Reset" =>
    ret = IF Get(call.args[4], call.args[5]) = NullMap THEN -1 ELSE 0

\* A Reset with an ill-formed rectangle, or a target out of bounds, that
\* returned 0.
C3_Witness ==
  /\ FailedReset
  /\ ret = 0

\* The query bound by the last Reset is one that fails: an ill-formed
\* rectangle, a target with no leaf, or a target on an obstacle.
BadQuery ==
  /\ m # NullMap
  /\ \/ ~ValidRange(qrange)
     \/ ~InGrid(x2, y2)
     \/ IsObstacle(m, x2, y2)

\* C4: after such a Reset every call of ComputeNodeFlowField,
\* ComputeGateFlowField (either flag) and ComputeFinalFlowFieldInQueryRange
\* returns -1 and adds no entry to any of the three fields.
C4_ComputeAfterFailedReset ==
  [][ (BadQuery /\ call'.op \in ComputeOps) =>
        /\ ret' = -1
        /\ DOMAIN nodeFlowField' \subseteq DOMAIN nodeFlowField
        /\ DOMAIN gateFlowField' \subseteq DOMAIN gateFlowField
        /\ DOMAIN finalFlowField' \subseteq DOMAIN finalFlowField ]_vars

\* A Compute call that returned -1 after a failed Reset that followed a
\* query whose fields were computed.
C4_Witness ==
  /\ BadQuery /\ ~ValidRange(qrange)
  /\ call.op \in ComputeOps /\ ret = -1
  /\ DOMAIN gateFlowField # {}

---------------------------------------------------------------------------
(* The sweeps and the borders of the leaves.                               *)

\* The leaf that holds the cell v of the bound map.
LeafOf(v) == FindNode(m, CellX(v), CellY(v))

\* C11: the sweeps do not propagate between leaves: for every entry of
\* finalFlowField that a sweep derived (a cell not in gateFlowField), the
\* recorded next cell lies in the same leaf as the cell itself.  It is stated
\* for the final fields computed by the calls in their documented order.
C11_DerivedNextInSameLeaf ==
  (FinalComputed /\ GateFieldInOrder) =>
    \A v \in DerivedEntries : LeafOf(finalFlowField[v].next) = LeafOf(v)

====
